---- MODULE Spec2Model ----
(***************************************************************************)
(* A model of rib_scraper.py: the resultsDriver that walks the match links *)
(* of each series and appends rows to a csv file, and the jsonParser that  *)
(* fetches one match page and flattens its embedded JSON into rows.        *)
(*                                                                         *)
(* Python values are modelled as follows.                                  *)
(*   - a dict whose key order is never observed (the page's form, a stat   *)
(*     record, an economy record, a lookup table) is a function whose      *)
(*     DOMAIN is the set of keys present;                                  *)
(*   - a dict whose key order is observed by list(d.keys()) and            *)
(*     list(d.values()) (a round, the match info) is a sequence of         *)
(*     <<key, value>> pairs in insertion order;                            *)
(*   - a str that the code slices and compares (an href) is a sequence of  *)
(*     one-character strings;                                              *)
(*   - a call that can raise returns a record whose err field names the    *)
(*     exception ("none" when it returns normally).                        *)
(***************************************************************************)
EXTENDS Integers, Sequences, FiniteSets, TLC

VARIABLES
    pc,          \* where the run is: "idle", "loop", "get", "fetched", "parse", "write", "raised"
    fileExists,  \* resultsDriver.fileExists
    sink,        \* the rows written to the csv file so far, in order
    seriesCount, \* how many calls of process_series have begun
    map_links,   \* process_series: the sorted hrefs of the series in hand
    pos,         \* process_series: how many links of map_links the for loop has taken
    matches,     \* process_series: the list of csv_rows() results collected so far
    wm,          \* process_series: write loop, index of the match being written
    wr,          \* process_series: write loop, rows of that match already written
    addHeader,   \* the addHeader argument of the jsonParser under construction
    response,    \* jsonParser.__init__: the local `response`
    count,       \* jsonParser.__init__: the local `count`
    parser,      \* the attributes of the jsonParser object: a function from attribute name to value
    fetched,     \* history: the hrefs of the series in hand whose GET has been issued, in order
    produced,    \* history: <<series number, row>> for every row csv_rows has returned in the run
    raised,      \* the exception that ended the run and the call that raised it
    existed,     \* history: the value __init__ gave fileExists (was the csv file there)
    calls        \* parser harness: the method calls made on `parser`: the method, the
                 \* form it was called on, the exception it raised, the value it returned

vars == <<pc, fileExists, sink, seriesCount, map_links, pos, matches, wm, wr,
          addHeader, response, count, parser, fetched, produced, raised, existed, calls>>

-----------------------------------------------------------------------------
(* Bounds of the model.                                                    *)

MaxSeries == 2      \* calls of process_series in one run
MaxLinks == 2       \* match links in one series
MaxStats == 2       \* records in series.playerStats
MaxEcon == 2        \* records in matchDetails.economies
MaxRounds == 2      \* rounds of the target match
MaxCalls == 2       \* method calls on one parser in the parser harness

(* Program constants.                                                      *)
RetryLimit == 11    \* `count < 11` in jsonParser.__init__
ServerError == 500  \* the status code __init__ and csv_rows test for

-----------------------------------------------------------------------------
(* Python helpers.                                                         *)

Has(d, k) == k \in DOMAIN d

Max2(a, b) == IF a >= b THEN a ELSE b
Min2(a, b) == IF a <= b THEN a ELSE b

\* dict.update: the keys of b are added to a, b's values win.
Update(a, b) == [k \in (DOMAIN a) \cup (DOMAIN b) |-> IF k \in DOMAIN b THEN b[k] ELSE a[k]]

\* d[k] = v on an unordered dict.
Put(d, k, v) == [x \in (DOMAIN d) \cup {k} |-> IF x = k THEN v ELSE d[x]]

\* del d[k] (the caller checks that k is present).
Del(d, k) == [x \in (DOMAIN d) \ {k} |-> d[x]]

\* Ordered dicts: list(d.keys()), list(d.values()), d[k] = v.
Keys(d) == [i \in 1..Len(d) |-> d[i][1]]
Values(d) == [i \in 1..Len(d) |-> d[i][2]]
OHas(d, k) == \E i \in 1..Len(d) : d[i][1] = k
OPut(d, k, v) ==
    IF OHas(d, k)
    THEN [i \in 1..Len(d) |-> IF d[i][1] = k THEN <<k, v>> ELSE d[i]]
    ELSE Append(d, <<k, v>>)

\* The value Python's None is written as in a cell.
None == "None"

\* `response = None` in __init__: an object without attributes.
NoResponse == <<>>

\* The value of `raised` while no exception has ended the run.
NotRaised == [exc |-> "none", at |-> "none"]

Ok(v) == [err |-> "none", val |-> v]
Raise(e) == [err |-> e, val |-> <<>>]

\* Sequences over S of length at most n.
SeqUpTo(S, n) == UNION {[1..k -> S] : k \in 0..n}

-----------------------------------------------------------------------------
(* jsonParser: the lookup tables.                                          *)

\* The loop shared by get_match_info, get_rounds and get_ign_dict: the index of
\* the first match of series.matches whose id is match_id; 0 stands for the
\* `index = None` the loop leaves when no match has that id.
MatchIndex(form, match_id) ==
    LET ms == form.series.matches
        hits == {i \in 1..Len(ms) : ms[i].id = match_id}
    IN IF hits = {} THEN 0 ELSE CHOOSE i \in hits : \A h \in hits : i <= h

\* dict built by `for x in table: d[x['id']] = x['name']`: a later entry wins.
TableDict(table) ==
    LET ids == {table[i].id : i \in 1..Len(table)}
        last(id) == CHOOSE i \in 1..Len(table) :
                        /\ table[i].id = id
                        /\ \A h \in 1..Len(table) : table[h].id = id => h <= i
    IN [id \in ids |-> table[last(id)].name]

get_weapon_dict(form) == TableDict(form.content.weapons)
get_agent_dict(form) == TableDict(form.content.agents)
get_region_dict(form) == TableDict(form.content.regions)

\* get_ign_dict, for a form whose target match is found (index > 0).
get_ign_dict(form, index) ==
    LET ps == form.series.matches[index].players
        tab == [i \in 1..Len(ps) |-> [id |-> ps[i].player.id, name |-> ps[i].player.ign]]
    IN TableDict(tab)

-----------------------------------------------------------------------------
(* jsonParser.get_match_info.                                              *)

\* Lines 241-265: the dict literal, given the series s, the match m the loop
\* found and the region table.
MatchInfo(s, m, match_id, regionDict) ==
    << <<"parentEvent", s.parentEventName>>,
       <<"eventName", s.eventName>>,
       <<"eventTime", s.startDate>>,
       <<"eventRegion", regionDict[s.eventRegionId]>>,
       <<"bestOf", s.bestOf>>,
       <<"stage", s.stage>>,
       <<"bracket", s.bracket>>,
       <<"team1", s.team1.name>>,
       <<"team2", s.team2.name>>,
       <<"team1SeriesScore", s.team1Score>>,
       <<"team2SeriesScore", s.team2Score>>,
       <<"matchId", match_id>>,
       <<"mapName", m.map.name>>,
       <<"gameStartTime", m.startDate>>,
       <<"seriesMatchNumber", m.seriesMatchNumber>>,
       <<"patchId", m.patchId>>,
       <<"seriesWinningTeamNumber", m.winningTeamNumber>>,
       <<"team1MatchScore", m.team1Score>>,
       <<"team2MatchScore", m.team2Score>>,
       <<"seriesWinCondition", m.winCondition>> >>

get_match_info(form, match_id) ==
    IF ~Has(form, "series") THEN Raise("KeyError")
    ELSE IF ~Has(form, "content") THEN Raise("KeyError")
    ELSE IF form.series.eventRegionId \notin DOMAIN get_region_dict(form)
    THEN Raise("KeyError")
    ELSE IF MatchIndex(form, match_id) = 0 THEN Raise("TypeError")
    ELSE Ok(MatchInfo(form.series, form.series.matches[MatchIndex(form, match_id)],
                      match_id, get_region_dict(form)))

-----------------------------------------------------------------------------
(* jsonParser.player_stats_data.                                           *)
(* The working state s of one call:                                        *)
(*   economy      form['matchDetails']['economies'], whose dicts the call  *)
(*                mutates in place;                                        *)
(*   playerStats  the filtered copy of series.playerStats;                 *)
(*   econWindow   the slice economy[i:i+numPlayers], as indices into       *)
(*                economy (the slice holds the same dict objects);         *)
(*   team1Round, team2Round, team1Players, team2Players, err.              *)

RemoveAt(q, k) == [i \in 1..(Len(q) - 1) |-> IF i < k THEN q[i] ELSE q[i + 1]]

\* Line 303: playerIgn is looked up and added. A step of the translation
\* works on [d |-> the dict as it stands, err |-> what was raised so far].
WithIgn(d, ignDict) ==
    IF d.playerId \notin DOMAIN ignDict THEN [d |-> d, err |-> "KeyError"]
    ELSE [d |-> Put(d, "playerIgn", ignDict[d.playerId]), err |-> "none"]

\* Line 304: agent is looked up and added.
WithAgent(r, agentDict) ==
    IF r.err # "none" THEN r
    ELSE IF ~Has(r.d, "agentId") THEN [r EXCEPT !.err = "KeyError"]
    ELSE IF r.d.agentId \notin DOMAIN agentDict THEN [r EXCEPT !.err = "KeyError"]
    ELSE [r EXCEPT !.d = Put(r.d, "agent", agentDict[r.d.agentId])]

\* Lines 305-306: weaponName is added when weaponId is truthy.
WithWeapon(r, weaponDict) ==
    IF r.err # "none" THEN r
    ELSE IF ~Has(r.d, "weaponId") THEN [r EXCEPT !.err = "KeyError"]
    ELSE IF r.d.weaponId = 0 THEN r
    ELSE IF r.d.weaponId \notin DOMAIN weaponDict THEN [r EXCEPT !.err = "KeyError"]
    ELSE [r EXCEPT !.d = Put(r.d, "weaponName", weaponDict[r.d.weaponId])]

\* Lines 309-311: the three id fields are deleted.
WithoutIds(r) ==
    IF r.err # "none" THEN r
    ELSE [r EXCEPT !.d = Del(Del(Del(r.d, "playerId"), "agentId"), "weaponId")]

\* Lines 298-300 and 313-317: the economy record at econWindow[k] is popped,
\* the dict r.d it has become stands in economy and in playerStats[j], and a
\* copy goes to the list of its team.
Store(s, j, k, r) ==
    LET t == [s EXCEPT !.economy[s.econWindow[k]] = r.d,
                       !.playerStats[j] = r.d,
                       !.econWindow = RemoveAt(s.econWindow, k),
                       !.err = r.err]
    IN IF r.err # "none" THEN t
       ELSE IF ~Has(r.d, "teamNumber") THEN [t EXCEPT !.err = "KeyError"]
       ELSE IF r.d.teamNumber = 1
            THEN [t EXCEPT !.team1Round = Append(@, r.d)]
            ELSE [t EXCEPT !.team2Round = Append(@, r.d)]

\* Lines 298-317: the economy record at econWindow[k] has matched playerStats[j].
Resolve(s, j, k, ignDict, agentDict, weaponDict) ==
    Store(s, j, k,
          WithoutIds(WithWeapon(WithAgent(
              WithIgn(Update(s.economy[s.econWindow[k]], s.playerStats[j]), ignDict),
              agentDict), weaponDict)))

\* Line 297, the keys the comparison reads: playerId of both records, and
\* roundNumber of both when the playerIds are equal.
KeysPresent(stat, player) ==
    /\ Has(stat, "playerId") /\ Has(player, "playerId")
    /\ (stat.playerId = player.playerId
          => Has(stat, "roundNumber") /\ Has(player, "roundNumber"))

\* Line 297: the condition of the if.
SameKey(stat, player) ==
    stat.playerId = player.playerId /\ stat.roundNumber = player.roundNumber

\* Lines 296-317: `for player in econWindow`, from its k-th element on.
RECURSIVE ScanWindow(_, _, _, _, _, _)
ScanWindow(s, j, k, ignDict, agentDict, weaponDict) ==
    IF k > Len(s.econWindow) THEN s
    ELSE IF j > Len(s.playerStats) THEN [s EXCEPT !.err = "IndexError"]
    ELSE IF ~KeysPresent(s.playerStats[j], s.economy[s.econWindow[k]])
    THEN [s EXCEPT !.err = "KeyError"]
    ELSE IF SameKey(s.playerStats[j], s.economy[s.econWindow[k]])
    THEN Resolve(s, j, k, ignDict, agentDict, weaponDict)
    ELSE ScanWindow(s, j, k + 1, ignDict, agentDict, weaponDict)

\* Line 295: `for j in range(i, i+numPlayers)`, from j on.
RECURSIVE ForStat(_, _, _, _, _, _)
ForStat(s, j, last, ignDict, agentDict, weaponDict) ==
    IF s.err # "none" \/ j > last THEN s
    ELSE ForStat(ScanWindow(s, j, 1, ignDict, agentDict, weaponDict),
                 j + 1, last, ignDict, agentDict, weaponDict)

\* The slice economy[i:i+numPlayers] for the window that starts at (1-based) i.
EconWindow(economy, i, numPlayers) ==
    [k \in 1..Max2(Min2(i + numPlayers - 1, Len(economy)) - i + 1, 0) |-> i + k - 1]

\* Lines 291-293: the state at the head of the window that starts at i.
OpenWindow(s, i, numPlayers) ==
    [s EXCEPT !.econWindow = EconWindow(s.economy, i, numPlayers),
              !.team1Round = <<>>,
              !.team2Round = <<>>]

\* Lines 318-319: the lists of the round are appended.
CloseWindow(s) ==
    IF s.err # "none" THEN s
    ELSE [s EXCEPT !.team1Players = Append(@, s.team1Round),
                   !.team2Players = Append(@, s.team2Round)]

\* Line 290: `for i in range(0, len(playerStats), numPlayers)`, from window i on.
RECURSIVE ForWindow(_, _, _, _, _, _)
ForWindow(s, i, numPlayers, ignDict, agentDict, weaponDict) ==
    IF s.err # "none" \/ i > Len(s.playerStats) THEN s
    ELSE ForWindow(CloseWindow(ForStat(OpenWindow(s, i, numPlayers),
                                       i, i + numPlayers - 1,
                                       ignDict, agentDict, weaponDict)),
                   i + numPlayers, numPlayers, ignDict, agentDict, weaponDict)

\* Line 277: the records of playerStats that belong to match_id, in order.
RECURSIVE FilterMatch(_, _)
FilterMatch(stats, match_id) ==
    IF stats = <<>> THEN <<>>
    ELSE IF Head(stats).matchId = match_id
         THEN <<Head(stats)>> \o FilterMatch(Tail(stats), match_id)
         ELSE FilterMatch(Tail(stats), match_id)

\* Lines 276-287: the state player_stats_data starts its loop in.
StartState(form, match_id) ==
    [economy |-> form.matchDetails.economies,
     playerStats |-> FilterMatch(form.series.playerStats, match_id),
     econWindow |-> <<>>,
     team1Round |-> <<>>, team2Round |-> <<>>,
     team1Players |-> <<>>, team2Players |-> <<>>,
     err |-> "none"]

\* Line 321: what the call returns and the form as it leaves it.
Outcome(form, s) ==
    [err |-> s.err,
     val |-> IF s.err = "none" THEN <<s.team1Players, s.team2Players>> ELSE <<>>,
     form |-> [form EXCEPT !.matchDetails.economies = s.economy]]

\* Line 282: numPlayers.
NumPlayers(ignDict) == Max2(Cardinality(DOMAIN ignDict), 1)

\* Lines 289-321, given the lookup tables.
Align(form, match_id, ignDict, agentDict, weaponDict) ==
    Outcome(form, ForWindow(StartState(form, match_id), 1, NumPlayers(ignDict),
                            ignDict, agentDict, weaponDict))

\* player_stats_data: err, the value returned ([team1Players, team2Players]) and
\* the form as the call leaves it.
player_stats_data(form, match_id) ==
    IF ~Has(form, "series") THEN [err |-> "KeyError", val |-> <<>>, form |-> form]
    ELSE IF ~Has(form, "matchDetails") THEN [err |-> "KeyError", val |-> <<>>, form |-> form]
    ELSE IF MatchIndex(form, match_id) = 0 THEN [err |-> "TypeError", val |-> <<>>, form |-> form]
    ELSE IF ~Has(form, "content") THEN [err |-> "KeyError", val |-> <<>>, form |-> form]
    ELSE Align(form, match_id,
               get_ign_dict(form, MatchIndex(form, match_id)),
               get_agent_dict(form), get_weapon_dict(form))

-----------------------------------------------------------------------------
(* jsonParser.get_rounds.                                                  *)

\* Lines 337-346, from round num on; rounds are mutated in place.
RECURSIVE AttachPlayers(_, _, _)
AttachPlayers(rounds, playerData, num) ==
    IF num > Len(rounds) THEN [err |-> "none", rounds |-> rounds]
    ELSE IF num > Len(playerData[1]) THEN [err |-> "IndexError", rounds |-> rounds]
    ELSE
      LET t1 == IF Len(playerData[1][num]) > 0 THEN playerData[1][num] ELSE None
          t2 == IF Len(playerData[2][num]) > 0 THEN playerData[2][num] ELSE None
          r == OPut(OPut(rounds[num], "team1Players", t1), "team2Players", t2)
      IN AttachPlayers([rounds EXCEPT ![num] = r], playerData, num + 1)

\* Lines 337-348, given the result psd of player_stats_data.
RoundsWithPlayers(index, psd) ==
    IF psd.err # "none" THEN [err |-> psd.err, val |-> <<>>, form |-> psd.form]
    ELSE LET a == AttachPlayers(psd.form.series.matches[index].rounds, psd.val, 1)
         IN [err |-> a.err,
             val |-> IF a.err = "none" THEN a.rounds ELSE <<>>,
             form |-> [psd.form EXCEPT !.series.matches[index].rounds = a.rounds]]

get_rounds(form, match_id) ==
    IF ~Has(form, "series") THEN [err |-> "KeyError", val |-> <<>>, form |-> form]
    ELSE IF MatchIndex(form, match_id) = 0 THEN [err |-> "TypeError", val |-> <<>>, form |-> form]
    ELSE RoundsWithPlayers(MatchIndex(form, match_id), player_stats_data(form, match_id))

-----------------------------------------------------------------------------
(* jsonParser.csv_rows, on the attributes p of a parser object.            *)

\* Lines 403-416, given the result of get_match_info and, when that did not
\* raise, the result gr of get_rounds.
Rows(p, matchData, gr) ==
    IF gr.err # "none" THEN [err |-> gr.err, val |-> <<>>, p |-> [p EXCEPT !.form = gr.form]]
    ELSE IF Len(gr.val) = 0
    THEN [err |-> "none", val |-> <<Values(matchData)>>, p |-> [p EXCEPT !.form = gr.form]]
    ELSE [err |-> "none",
          val |-> (IF p.addHeader THEN <<Keys(matchData) \o Keys(gr.val[1])>> ELSE <<>>)
                  \o [r \in 1..Len(gr.val) |-> Values(matchData) \o Values(gr.val[r])],
          p |-> [p EXCEPT !.form = gr.form]]

\* Lines 402-403: get_rounds is called only when get_match_info has returned.
RowsAfter(p, mi) ==
    IF mi.err # "none" THEN [err |-> mi.err, val |-> <<>>, p |-> p]
    ELSE Rows(p, mi.val, get_rounds(p.form, p.match_id))

csv_rows(p) ==
    IF ~Has(p, "form") THEN [err |-> "AttributeError", val |-> <<>>, p |-> p]
    ELSE IF DOMAIN p.form = {} THEN [err |-> "none", val |-> <<>>, p |-> p]
    ELSE IF Has(p.form, "statusCode") /\ p.form.statusCode = ServerError
    THEN [err |-> "none", val |-> <<>>, p |-> p]
    ELSE RowsAfter(p, get_match_info(p.form, p.match_id))

-----------------------------------------------------------------------------
(* The pages the site can serve: the value of props.pageProps.             *)

\* One record of series.playerStats. Player 1 plays on team 1 with weapon 1,
\* player 2 on team 2 without a weapon (weaponId 0).
Stat(p, r, mid) ==
    [matchId |-> mid, playerId |-> p, roundNumber |-> r, agentId |-> 10,
     weaponId |-> IF p = 1 THEN 1 ELSE 0, teamNumber |-> p, kills |-> 10 * p + r]

\* One record of matchDetails.economies.
Econ(p, r) == [playerId |-> p, roundNumber |-> r, loadoutValue |-> 100 * p + r]

\* A round of the match, in three shapes: two key orders and a smaller key set.
RoundNW(n) == << <<"number", n>>, <<"winningTeamNumber", 1>> >>
RoundWN(n) == << <<"winningTeamNumber", 2>>, <<"number", n>> >>
RoundN(n) == << <<"number", n>> >>

Player(p) == [player |-> [id |-> p, ign |-> IF p = 1 THEN "Alice" ELSE "Bob"]]

Match(mid, players, rounds) ==
    [id |-> mid, map |-> [name |-> "Bind"], startDate |-> "t1",
     seriesMatchNumber |-> 1, patchId |-> 5, winningTeamNumber |-> 1,
     team1Score |-> 13, team2Score |-> 7, winCondition |-> "elim",
     players |-> players, rounds |-> rounds]

Content == [weapons |-> << [id |-> 1, name |-> "Vandal"] >>,
            agents |-> << [id |-> 10, name |-> "Jett"] >>,
            regions |-> << [id |-> 3, name |-> "NA"] >>]

Series(ms, stats, region) ==
    [matches |-> ms, playerStats |-> stats,
     parentEventName |-> "VCT", eventName |-> "Masters", startDate |-> "t0",
     eventRegionId |-> region, bestOf |-> 3, stage |-> "playoffs",
     bracket |-> "upper", team1 |-> [name |-> "A"], team2 |-> [name |-> "B"],
     team1Score |-> 2, team2Score |-> 0]

Form(mid, ms, stats, econ, region) ==
    [matchId |-> mid,
     series |-> Series(ms, stats, region),
     matchDetails |-> [economies |-> econ],
     content |-> Content]

\* A well-formed page of match mid: one player, n rounds, one stat record and
\* one economy record per round.
GoodForm(mid, n) ==
    Form(mid,
         << Match(mid, <<Player(1)>>, [r \in 1..n |-> RoundNW(r)]) >>,
         [r \in 1..n |-> Stat(1, r, mid)],
         [r \in 1..n |-> Econ(1, r)],
         3)

\* The pages the driver model serves for match mid, by name.
PageKinds == {"two_rounds", "zero_rounds", "status_500",
              "no_match", "lookup_miss", "no_content", "no_match_id"}

PageForm(kind, mid) ==
    CASE kind = "two_rounds" -> GoodForm(mid, 2)
      [] kind = "zero_rounds" -> GoodForm(mid, 0)
      [] kind = "status_500" -> [matchId |-> mid, statusCode |-> ServerError]
      [] kind = "no_match" ->
            Form(mid, << Match(mid + 1, <<Player(1)>>, <<RoundNW(1)>>) >>,
                 <<Stat(1, 1, mid)>>, <<Econ(1, 1)>>, 3)
      [] kind = "lookup_miss" ->
            Form(mid, << Match(mid, <<Player(1)>>, <<RoundNW(1)>>) >>,
                 <<Stat(1, 1, mid)>>, <<Econ(1, 1)>>, 4)
      [] kind = "no_content" ->
            [k \in {"matchId", "series", "matchDetails"} |-> GoodForm(mid, 1)[k]]
      [] kind = "no_match_id" ->
            [k \in {"series", "matchDetails", "content"} |-> GoodForm(mid, 1)[k]]

\* The inputs of the parser harness: every page of match TargetMatch built
\* from up to MaxStats stat records, MaxEcon economy records, MaxRounds rounds
\* and zero to two players, and the malformed pages of the driver model.
TargetMatch == 7

StatKinds == {Stat(1, 1, TargetMatch), Stat(2, 1, TargetMatch),
              Stat(1, 2, TargetMatch), Stat(1, 1, TargetMatch + 1)}
EconKinds == {Econ(1, 1), Econ(2, 1), Econ(1, 2)}
RoundKinds == {RoundNW(1), RoundWN(1), RoundN(1)}
PlayerLists == {<<>>, <<Player(1)>>, <<Player(1), Player(2)>>}

\* The malformed pages among the inputs of the parser harness.
MalformedForms ==
    {PageForm(k, TargetMatch) : k \in {"no_match", "lookup_miss", "no_content"}}

-----------------------------------------------------------------------------
(* The parser harness: methods of one jsonParser object, called in any     *)
(* order on the attributes __init__ has set.                               *)

ParserInit ==
    /\ pc = "parser"
    /\ \E h \in BOOLEAN :
          \/ \E ps \in PlayerLists, rs \in SeqUpTo(RoundKinds, MaxRounds),
                st \in SeqUpTo(StatKinds, MaxStats), ec \in SeqUpTo(EconKinds, MaxEcon) :
                parser = [form |-> Form(TargetMatch, << Match(TargetMatch, ps, rs) >>, st, ec, 3),
                          match_id |-> TargetMatch, addHeader |-> h]
          \/ \E f \in MalformedForms :
                parser = [form |-> f, match_id |-> f.matchId, addHeader |-> h]
    /\ calls = <<>>
    /\ fileExists = FALSE /\ sink = <<>> /\ seriesCount = 0
    /\ map_links = <<>> /\ pos = 0 /\ matches = <<>> /\ wm = 0 /\ wr = 0
    /\ addHeader = FALSE /\ response = NoResponse /\ count = 0
    /\ fetched = <<>> /\ produced = <<>> /\ raised = NotRaised
    /\ existed = FALSE

driverVars == <<pc, fileExists, sink, seriesCount, map_links, pos, matches, wm, wr,
                addHeader, response, count, fetched, produced, raised, existed>>

CallPlayerStatsData ==
    /\ pc = "parser" /\ Len(calls) < MaxCalls
    /\ LET r == player_stats_data(parser.form, parser.match_id) IN
         /\ parser' = [parser EXCEPT !.form = r.form]
         /\ calls' = Append(calls, [method |-> "player_stats_data", arg |-> parser.form,
                                 err |-> r.err, val |-> r.val])
    /\ UNCHANGED driverVars

CallGetRounds ==
    /\ pc = "parser" /\ Len(calls) < MaxCalls
    /\ LET r == get_rounds(parser.form, parser.match_id) IN
         /\ parser' = [parser EXCEPT !.form = r.form]
         /\ calls' = Append(calls, [method |-> "get_rounds", arg |-> parser.form,
                                 err |-> r.err, val |-> r.val])
    /\ UNCHANGED driverVars

CallCsvRows ==
    /\ pc = "parser" /\ Len(calls) < MaxCalls
    /\ LET r == csv_rows(parser) IN
         /\ parser' = r.p
         /\ calls' = Append(calls, [method |-> "csv_rows", arg |-> parser.form,
                                 err |-> r.err, val |-> r.val])
    /\ UNCHANGED driverVars

ParserNext == CallPlayerStatsData \/ CallGetRounds \/ CallCsvRows

ParserSpec == ParserInit /\ [][ParserNext]_vars


-----------------------------------------------------------------------------
(* resultsDriver.process_series: the hrefs and their order.                *)

\* ord() of the characters the hrefs of the model are written with.
Ord(c) ==
    CASE c = "/" -> 47
      [] c = "0" -> 48 [] c = "1" -> 49 [] c = "2" -> 50 [] c = "3" -> 51
      [] c = "4" -> 52 [] c = "5" -> 53 [] c = "6" -> 54 [] c = "7" -> 55
      [] c = "8" -> 56 [] c = "9" -> 57
      [] c = "=" -> 61 [] c = "?" -> 63 [] c = "m" -> 109

\* x.rfind(c) + 1: the 1-based index of the last c in x, 0 when x holds none
\* (Python's -1 + 1).
RFind(x, c) ==
    LET hits == {i \in 1..Len(x) : x[i] = c}
    IN IF hits = {} THEN 0 ELSE CHOOSE i \in hits : \A h \in hits : h <= i

\* The sort key `x[x.rfind('=')+1:]`: a str.
SortKey(x) == SubSeq(x, RFind(x, "=") + 1, Len(x))

\* a < b on str: lexicographic, by code point.
StrLess(a, b) ==
    \E i \in 1..(Len(b)) :
        /\ i <= Len(a) + 1
        /\ \A h \in 1..(i - 1) : a[h] = b[h]
        /\ (i = Len(a) + 1 \/ Ord(a[i]) < Ord(b[i]))

\* list.sort(key=...): stable, so x goes behind every element whose key is not
\* greater than its own.
RECURSIVE InsertSorted(_, _)
InsertSorted(sorted, x) ==
    IF sorted = <<>> THEN <<x>>
    ELSE IF StrLess(SortKey(x), SortKey(Head(sorted)))
         THEN <<x>> \o sorted
         ELSE <<Head(sorted)>> \o InsertSorted(Tail(sorted), x)

RECURSIVE SortLinks(_)
SortLinks(links) ==
    IF links = <<>> THEN <<>>
    ELSE InsertSorted(SortLinks(SubSeq(links, 1, Len(links) - 1)), links[Len(links)])

\* int() of a str of digits.
RECURSIVE IntOf(_)
IntOf(digits) ==
    IF digits = <<>> THEN 0
    ELSE 10 * IntOf(SubSeq(digits, 1, Len(digits) - 1)) + (Ord(digits[Len(digits)]) - 48)

\* The match a link names: the site serves, at a match link, a page whose
\* matchId is the number that ends the link.
MatchIdOf(href) == IntOf(SortKey(href))

\* The hrefs of the model and the series rows the results page can show.
Hrefs == { <<"m", "=", "2">>, <<"m", "=", "9">>, <<"m", "=", "1", "0">> }

SeriesInputs ==
    {q \in SeqUpTo(Hrefs, MaxLinks) : \A i, j \in 1..Len(q) : i # j => q[i] # q[j]}

-----------------------------------------------------------------------------
(* The run: resultsDriver.__init__, then process_series once per series.   *)

Init ==
    /\ pc = "idle"
    /\ fileExists \in BOOLEAN
    /\ existed = fileExists
    /\ sink = <<>>
    /\ seriesCount = 0
    /\ map_links = <<>> /\ pos = 0 /\ matches = <<>> /\ wm = 0 /\ wr = 0
    /\ addHeader = FALSE /\ response = NoResponse /\ count = 0
    /\ parser = <<>>
    /\ fetched = <<>> /\ produced = <<>> /\ raised = NotRaised
    /\ calls = <<>>

\* get_series, up to its first evaluation of the loop condition at line 100:
\* __init__ stores the number of series as self.numMatches and never sets
\* self.numSeries, so the condition raises before any series is processed.
get_series ==
    /\ pc = "idle" /\ seriesCount = 0
    /\ pc' = "raised"
    /\ raised' = [exc |-> "AttributeError", at |-> "get_series"]
    /\ UNCHANGED <<fileExists, sink, seriesCount, map_links, pos, matches, wm, wr,
                   addHeader, response, count, parser, fetched, produced, existed, calls>>

\* process_series(series), lines 125-130: the links of the row, sorted.
process_series ==
    /\ pc = "idle" /\ seriesCount < MaxSeries
    /\ \E links \in SeriesInputs :
         map_links' = (IF links # <<>> THEN SortLinks(links) ELSE links)
    /\ seriesCount' = seriesCount + 1
    /\ pos' = 0 /\ matches' = <<>> /\ fetched' = <<>>
    /\ pc' = "loop"
    /\ UNCHANGED <<fileExists, sink, wm, wr, addHeader, response, count, parser,
                   produced, raised, existed, calls>>

\* Lines 131-139 and 198-199: the for loop takes the next link and the
\* construction of its jsonParser begins.
NextLink ==
    /\ pc = "loop" /\ pos < Len(map_links)
    /\ pos' = pos + 1
    /\ addHeader' = ~fileExists
    /\ response' = NoResponse /\ count' = 0
    /\ pc' = "get"
    /\ UNCHANGED <<fileExists, sink, seriesCount, map_links, matches, wm, wr, parser,
                   fetched, produced, raised, existed, calls>>

\* bool(response): None is false, and a requests.Response is true when its
\* status code is below 400.
Truthy(resp) == Has(resp, "status_code") /\ resp.status_code < 400

\* What one requests.get can come back with. A response of status 200 carries
\* any page of the model or one without the __NEXT_DATA__ script; an error
\* status carries a page without it.
Responses ==
    {[status_code |-> 200, page |-> k] : k \in PageKinds \cup {"no_json"}}
    \cup {[status_code |-> c, page |-> "no_json"] : c \in {404, ServerError}}

\* Lines 201-208: one turn of the retry loop.
Get ==
    /\ pc = "get" /\ ~Truthy(response) /\ count < RetryLimit
    /\ count' = count + 1
    /\ fetched' = IF count = 0 THEN Append(fetched, map_links[pos]) ELSE fetched
    /\ \/ /\ response' \in Responses
          /\ UNCHANGED <<pc, raised>>
       \/ \* requests.Timeout: caught, response keeps its value
          /\ UNCHANGED <<response, pc, raised>>
       \/ \* any other exception of requests.get is not caught
          /\ pc' = "raised"
          /\ raised' = [exc |-> "ConnectionError", at |-> "__init__"]
          /\ UNCHANGED response
    /\ UNCHANGED <<fileExists, sink, seriesCount, map_links, pos, matches, wm, wr,
                   addHeader, parser, existed, produced, calls>>

\* Lines 210-227 and 137: the rest of __init__, and the return to process_series.
Construct ==
    /\ pc = "get" /\ ~(~Truthy(response) /\ count < RetryLimit)
    /\ IF ~Has(response, "status_code")
       THEN /\ pc' = "raised"
            /\ raised' = [exc |-> "AttributeError", at |-> "__init__"]
            /\ UNCHANGED <<parser, fileExists>>
       ELSE IF response.status_code = ServerError \/ response.page = "no_json"
       THEN /\ parser' = <<>>
            /\ fileExists' = TRUE
            /\ pc' = "parse"
            /\ UNCHANGED raised
       ELSE LET form == PageForm(response.page, MatchIdOf(map_links[pos])) IN
            IF ~Has(form, "matchId")
            THEN /\ pc' = "raised"
                 /\ raised' = [exc |-> "KeyError", at |-> "__init__"]
                 /\ parser' = [form |-> form]
                 /\ UNCHANGED fileExists
            ELSE /\ parser' = [form |-> form, match_id |-> form.matchId,
                               addHeader |-> addHeader]
                 /\ fileExists' = TRUE
                 /\ pc' = "parse"
                 /\ UNCHANGED raised
    /\ UNCHANGED <<sink, seriesCount, map_links, pos, matches, wm, wr, addHeader,
                   response, count, fetched, produced, existed, calls>>

\* Line 140: matches.append(parser.csv_rows()).
Parse ==
    /\ pc = "parse"
    /\ LET r == csv_rows(parser) IN
         IF r.err # "none"
         THEN /\ pc' = "raised"
              /\ raised' = [exc |-> r.err, at |-> "csv_rows"]
              /\ parser' = r.p
              /\ UNCHANGED <<matches, produced>>
         ELSE /\ matches' = Append(matches, r.val)
              /\ produced' = produced \o [i \in 1..Len(r.val) |-> <<seriesCount, r.val[i]>>]
              /\ parser' = r.p
              /\ pc' = "loop"
              /\ UNCHANGED raised
    /\ UNCHANGED <<fileExists, sink, seriesCount, map_links, pos, wm, wr, addHeader,
                   response, count, fetched, existed, calls>>

\* Line 141: the for loop is over and the file is opened for appending.
OpenFile ==
    /\ pc = "loop" /\ pos = Len(map_links)
    /\ pc' = "write" /\ wm' = 1 /\ wr' = 0
    /\ UNCHANGED <<fileExists, sink, seriesCount, map_links, pos, matches, addHeader,
                   response, count, parser, fetched, produced, raised, existed, calls>>

\* Lines 144-146 with the writerow call lost: the loop runs over the row
\* without appending it to the file.
WriteRow_Skip ==
    /\ pc = "write" /\ wm <= Len(matches) /\ wr < Len(matches[wm])
    /\ wr' = wr + 1
    /\ UNCHANGED <<pc, fileExists, sink, seriesCount, map_links, pos, matches, wm,
                   addHeader, response, count, parser, fetched, produced, raised,
                   existed, calls>>

\* Lines 144-146: one row is written and flushed.
WriteRow ==
    /\ pc = "write" /\ wm <= Len(matches) /\ wr < Len(matches[wm])
    /\ sink' = Append(sink, matches[wm][wr + 1])
    /\ wr' = wr + 1
    /\ UNCHANGED <<pc, fileExists, seriesCount, map_links, pos, matches, wm, addHeader,
                   response, count, parser, fetched, produced, raised, existed, calls>>

\* Line 143: the rows of one match are written, the next match is taken.
NextMatch ==
    /\ pc = "write" /\ wm <= Len(matches) /\ wr = Len(matches[wm])
    /\ wm' = wm + 1 /\ wr' = 0
    /\ UNCHANGED <<pc, fileExists, sink, seriesCount, map_links, pos, matches, addHeader,
                   response, count, parser, fetched, produced, raised, existed, calls>>

\* The end of process_series: the file is closed and the call returns.
Return ==
    /\ pc = "write" /\ wm > Len(matches)
    /\ pc' = "idle"
    /\ UNCHANGED <<fileExists, sink, seriesCount, map_links, pos, matches, wm, wr,
                   addHeader, response, count, parser, fetched, produced, raised,
                   existed, calls>>

Next ==
    \/ get_series
    \/ process_series
    \/ NextLink
    \/ Get
    \/ Construct
    \/ Parse
    \/ OpenFile
    \/ WriteRow
    \/ NextMatch
    \/ Return

Spec == Init /\ [][Next]_vars


-----------------------------------------------------------------------------
(* Properties of the run (checked under Spec).                             *)

\* A row of the csv file is the header when it starts with the first key of
\* the match info instead of its value.
IsHeader(row) == row[1] = "parentEvent"

HeaderCount(rows) == Cardinality({i \in 1..Len(rows) : IsHeader(rows[i])})

\* The number of columns the match info fills.
MetaColumns == Len(MatchInfo(GoodForm(0, 0).series, Match(0, <<>>, <<>>), 0,
                             get_region_dict(GoodForm(0, 0))))

\* A data row of a match that has rounds: the match info and a round.
IsRoundRow(row) == ~IsHeader(row) /\ Len(row) > MetaColumns

\* C1: in a run that starts without the csv file, once process_series has
\* written the rows of a match with rounds, the file holds exactly one header
\* row (the first successfully parsed match has contributed it, no later one
\* another).
C1_OneHeaderRow ==
    (pc = "idle" /\ ~existed /\ \E i \in 1..Len(sink) : IsRoundRow(sink[i]))
        => HeaderCount(sink) = 1

\* The fetch of the link in hand ended in a soft failure: __init__ returned
\* without setting any attribute.
SoftFailure == ~Has(parser, "form")

\* C2: a fetch that ends in a soft failure (HTTP 500, or no __NEXT_DATA__
\* script) never makes process_series raise: csv_rows returns no row for it.
C2_SoftFailureSkipped ==
    ~(raised.at = "csv_rows" /\ SoftFailure)

\* C3: a failure while parsing the page of one match (a lookup miss, the
\* match missing from series.matches, a missing top-level key) never ends the
\* run: it is caught at the boundary of process_series.
C3_ParseFailureCaught ==
    ~(/\ raised.at = "csv_rows"
      /\ raised.exc \in {"KeyError", "TypeError", "IndexError"}
      /\ Has(parser, "form"))

\* C4: the links of a series are fetched in ascending order of the number
\* that follows their last '=', compared as a number.
C4_FetchedInNumericOrder ==
    \A i, j \in 1..Len(fetched) :
        i < j => IntOf(SortKey(fetched[i])) < IntOf(SortKey(fetched[j]))

\* A GET of the link in hand has been issued.
Fetching == pc = "get" /\ count >= 1

\* The rows csv_rows has returned in the series before series n, in order.
RowsBefore(n) ==
    LET before == SelectSeq(produced, LAMBDA e : e[1] < n)
    IN [i \in 1..Len(before) |-> before[i][2]]

\* C8, as claimed: when the fetch of a link begins, every row of the links
\* before it is in the sink.
C8_WrittenBeforeNextFetch ==
    Fetching => Len(sink) = Len(produced)

\* C8, amended: when the fetch of a link begins, the sink holds exactly the
\* rows of the series before the one in hand; the rows of the earlier links
\* of the series in hand are written only after its last link is parsed.
C8_WrittenBeforeNextSeries ==
    Fetching => sink = RowsBefore(seriesCount)

\* C8 witness: the second link of the second series is being fetched, the
\* rows of the first series are in the sink and those of the first link of
\* the second series are still waiting in `matches`.
C8_Witness ==
    /\ Fetching /\ seriesCount = 2 /\ pos = 2
    /\ Len(sink) > 0 /\ Len(matches) = 1 /\ Len(matches[1]) > 0

\* C9: one construction issues at most 10 GET requests, and when every one of
\* them times out the construction ends without raising.
C9_AtMostTenRequests ==
    /\ count <= 10
    /\ ~(raised.at = "__init__" /\ raised.exc = "AttributeError")

-----------------------------------------------------------------------------
(* Properties of the parser (checked under ParserSpec).                    *)

\* The page has its top-level keys and its target match is in series.matches.
TargetFound(form) ==
    /\ Has(form, "series") /\ Has(form, "matchDetails") /\ Has(form, "content")
    /\ MatchIndex(form, form.matchId) > 0

RoundsOf(form) == form.series.matches[MatchIndex(form, form.matchId)].rounds

\* C5: on a page whose target match is found, player_stats_data returns two
\* sequences of len(rounds) elements each, and get_rounds returns len(rounds)
\* rounds that each carry the keys team1Players and team2Players.
C5_OneEntryPerRound ==
    (Len(calls) >= 1 /\ TargetFound(calls[1].arg)) =>
        LET c == calls[1]
            n == Len(RoundsOf(c.arg))
        IN /\ c.method = "player_stats_data" =>
                 /\ c.err = "none"
                 /\ Len(c.val[1]) = n /\ Len(c.val[2]) = n
           /\ c.method = "get_rounds" =>
                 /\ c.err = "none"
                 /\ Len(c.val) = n
                 /\ \A r \in 1..n : /\ OHas(c.val[r], "team1Players")
                                    /\ OHas(c.val[r], "team2Players")

\* The stat records of the target match, grouped as the site sends them: every
\* player is in the player list, no (playerId, roundNumber) comes twice, and
\* the records of round r fill the r-th window of numPlayers records.
WellGrouped(form) ==
    LET stats == FilterMatch(form.series.playerStats, form.matchId)
        ign == get_ign_dict(form, MatchIndex(form, form.matchId))
        n == NumPlayers(ign)
    IN /\ Len(stats) = n * Len(RoundsOf(form))
       /\ \A j \in 1..Len(stats) :
            /\ stats[j].playerId \in DOMAIN ign
            /\ stats[j].roundNumber = ((j - 1) \div n) + 1
       /\ \A i, j \in 1..Len(stats) :
            (i # j /\ stats[i].roundNumber = stats[j].roundNumber)
                => stats[i].playerId # stats[j].playerId

\* How many records of `team` are those of the player named ign in round r.
Resolved(team, ign, r) ==
    Cardinality({i \in 1..Len(team) :
                    team[i].playerIgn = ign /\ team[i].roundNumber = r})

\* C6: every stat record of a round whose (playerId, roundNumber) has a record
\* in the economies is resolved exactly once, in the list of its team for
\* that round.
C6_ResolvedExactlyOnce ==
    (/\ Len(calls) >= 1 /\ calls[1].method = "player_stats_data"
     /\ TargetFound(calls[1].arg) /\ WellGrouped(calls[1].arg)) =>
        LET c == calls[1]
            stats == FilterMatch(c.arg.series.playerStats, c.arg.matchId)
            econ == c.arg.matchDetails.economies
            ign == get_ign_dict(c.arg, MatchIndex(c.arg, c.arg.matchId))
        IN \A j \in 1..Len(stats) :
             (\E e \in 1..Len(econ) :
                 /\ econ[e].playerId = stats[j].playerId
                 /\ econ[e].roundNumber = stats[j].roundNumber)
             => /\ c.err = "none"
                /\ Len(c.val[1]) >= stats[j].roundNumber
                /\ LET mine == IF stats[j].teamNumber = 1 THEN 1 ELSE 2
                       r == stats[j].roundNumber
                       name == ign[stats[j].playerId]
                   IN /\ Resolved(c.val[mine][r], name, r) = 1
                      /\ Resolved(c.val[3 - mine][r], name, r) = 0

\* C7: a second call of player_stats_data on the same parser returns without
\* error what the first call returned.
C7_SecondCallIdentical ==
    (/\ Len(calls) = 2
     /\ calls[1].method = "player_stats_data" /\ calls[1].err = "none"
     /\ calls[2].method = "player_stats_data") =>
        /\ calls[2].err = "none"
        /\ calls[2].val = calls[1].val

\* The value of key k in the ordered dict d.
OGet(d, k) == d[CHOOSE i \in 1..Len(d) : d[i][1] = k][2]

\* The data row lists the values of `round` under the round keys of the header.
RowAligned(row, round, headerKeys) ==
    /\ Len(row) = MetaColumns + Len(headerKeys)
    /\ \A i \in 1..Len(headerKeys) :
         \/ headerKeys[i] \in {"team1Players", "team2Players"}
         \/ /\ OHas(round, headerKeys[i])
            /\ row[MetaColumns + i] = OGet(round, headerKeys[i])

\* C10: when csv_rows returns rows for a match with rounds, every data row
\* lists its round values in the key order of the header, which is built from
\* the first round (otherwise an error is raised instead).
C10_RowsAligned ==
    (/\ Len(calls) >= 1 /\ calls[1].method = "csv_rows" /\ calls[1].err = "none"
     /\ TargetFound(calls[1].arg) /\ Len(RoundsOf(calls[1].arg)) >= 1) =>
        LET c == calls[1]
            rounds == get_rounds(c.arg, c.arg.matchId).val
            skip == Len(c.val) - Len(rounds)
        IN \A r \in 1..Len(rounds) :
             RowAligned(c.val[skip + r], rounds[r], Keys(rounds[1]))


====
